---------------------------- MODULE Spec2Model ----------------------------
(***************************************************************************)
(* git-diary: the activity-aggregation and diary-commit pipeline of        *)
(* src/extension.js (the evolved variant, lines 229-563).                  *)
(*                                                                         *)
(* A JavaScript string is modelled as the sequence of its UTF-16 code      *)
(* units (natural numbers), so that slicing, splitting, path matching and  *)
(* the UTF-8 / base64 transport encoding are computed as the code computes *)
(* them.                                                                   *)
(***************************************************************************)
EXTENDS Integers, Sequences, FiniteSets, TLC

(***************************************************************************)
(* Bounds of the model.                                                    *)
(***************************************************************************)
\* records created in one run (caps the record id counter)
MaxRecords == 3
\* flush cycles (logActivity calls) that may be suspended at the same time
MaxCycles == 2
\* calendar days the clock may reach
MaxDay == 2
\* milliseconds of one step of the clock
TickMs == 750
\* saturation of the per-document count of edit events of one burst
MaxBurst == 2
\* calls of setupCommitInterval in one session (the first is activate's)
MaxSetups == 2

(***************************************************************************)
(* Program constants.                                                      *)
(***************************************************************************)
DEFAULT_INTERVAL == 30
debounceTime == 1500
maxSnippetLength == 300

(***************************************************************************)
(* String literals of the source, as code units.                           *)
(***************************************************************************)
strNodeModules == <<47, 110, 111, 100, 101, 95, 109, 111, 100, 117, 108, 101, 115, 47>>   \* "/node_modules/"
strEnv == <<46, 101, 110, 118>>   \* ".env"
strDist == <<47, 100, 105, 115, 116, 47>>   \* "/dist/"
strLog == <<46, 108, 111, 103>>   \* ".log"
strRenamedTo == <<114, 101, 110, 97, 109, 101, 100, 32, 116, 111, 32>>   \* "renamed to "
strRenamedFrom == <<114, 101, 110, 97, 109, 101, 100, 32, 102, 114, 111, 109, 32>>   \* "renamed from "
strCreated == <<67, 114, 101, 97, 116, 101, 100>>   \* "Created"
strDeleted == <<68, 101, 108, 101, 116, 101, 100>>   \* "Deleted"
strWorkspaceRoot == <<119, 111, 114, 107, 115, 112, 97, 99, 101, 32, 114, 111, 111, 116>>   \* "workspace root"
strModifiedLine == <<77, 111, 100, 105, 102, 105, 101, 100, 32, 108, 105, 110, 101, 32>>   \* "Modified line "
strEllipsis == <<46, 46, 46>>   \* "..."
strH2 == <<35, 35, 32>>   \* "## "
strH3 == <<35, 35, 35, 32>>   \* "### "
strBullet == <<45, 32, 42, 42>>   \* "- **"
strBulletEnd == <<42, 42, 58, 32>>   \* "**: "
strSep == <<10, 10>>   \* "\n\n"
strSnipOpen == <<58, 10, 32, 32, 96>>   \* ":\n  `"
strTick == <<96>>   \* "`"
strNL == <<10>>   \* "\n"
strNLStar == <<10, 42>>   \* "\n*"
strStarNL == <<42, 10>>   \* "*\n"
strSpace == <<32>>   \* " "

(***************************************************************************)
(* Inputs of the host: the workspace, its files and documents.             *)
(***************************************************************************)
rootPath == <<47, 119>>   \* "/w"
pathA == <<47, 119, 47, 115, 47, 97, 46, 116, 115>>   \* "/w/s/a.ts"
pathB == <<47, 119, 47, 98>>   \* "/w/b"
pathLog == <<47, 119, 47, 97, 46, 108, 111, 103>>   \* "/w/a.log"
pathTmp == <<47, 119, 47, 116, 109, 112, 47, 99>>   \* "/w/tmp/c"
strTmp == <<47, 116, 109, 112, 47>>   \* "/tmp/", a user-configured ignore pattern
FilePaths == {pathA, pathB, pathLog, pathTmp}

textA == <<97>>   \* "a"
textAB == <<97, 10, 98>>   \* "a\nb"
textAC == <<97, 10, 99>>   \* "a\nc"
Texts == {textA, textAB, textAC}

Docs == {"d1", "d2", "d3"}
\* document.uri.fsPath
FsPath(d) == CASE d = "d1" -> pathA [] d = "d2" -> pathLog [] OTHER -> pathB

\* the values the setting gitDiary.ignoredPaths may hold
IgnoredPathsSettings == {<<>>, <<strTmp>>}

(***************************************************************************)
(* String helpers.                                                         *)
(***************************************************************************)
Min(a, b) == IF a < b THEN a ELSE b
Max(a, b) == IF a > b THEN a ELSE b

\* String.prototype.includes
Includes(s, sub) ==
  \E i \in 1..(Len(s) - Len(sub) + 1) : SubSeq(s, i, i + Len(sub) - 1) = sub

\* RegExp /<literal>$/ .test
EndsWith(s, suf) ==
  /\ Len(s) >= Len(suf)
  /\ SubSeq(s, Len(s) - Len(suf) + 1, Len(s)) = suf

\* String.prototype.slice(0, n)
Slice0(s, n) == SubSeq(s, 1, Min(n, Len(s)))

\* String.prototype.split(c), c one code unit
RECURSIVE Split(_, _)
Split(s, c) ==
  IF \A i \in 1..Len(s) : s[i] # c THEN <<s>>
  ELSE LET k == CHOOSE i \in 1..Len(s) : s[i] = c /\ \A j \in 1..(i - 1) : s[j] # c
       IN  <<SubSeq(s, 1, k - 1)>> \o Split(SubSeq(s, k + 1, Len(s)), c)

\* Array.prototype.join(sep)
RECURSIVE Join(_, _)
Join(parts, sep) ==
  IF parts = <<>> THEN <<>>
  ELSE IF Len(parts) = 1 THEN parts[1]
  ELSE parts[1] \o sep \o Join(Tail(parts), sep)

\* the decimal digits of a natural number
RECURSIVE Dec(_)
Dec(n) == IF n < 10 THEN <<48 + n>> ELSE Dec(n \div 10) \o <<48 + (n % 10)>>

\* the positions of "\/" in a path
SlashAt(p) == {i \in 1..Len(p) : p[i] = 47}

\* path.basename
Basename(p) ==
  IF SlashAt(p) = {} THEN p
  ELSE LET k == CHOOSE i \in SlashAt(p) : \A j \in SlashAt(p) : j <= i
       IN  SubSeq(p, k + 1, Len(p))

\* path.dirname, of an absolute path
Dirname(p) ==
  LET k == CHOOSE i \in SlashAt(p) : \A j \in SlashAt(p) : j <= i
  IN  IF k = 1 THEN <<47>> ELSE SubSeq(p, 1, k - 1)

\* the segments of an absolute, normalised path
Segments(p) == IF Len(p) <= 1 THEN <<>> ELSE Split(SubSeq(p, 2, Len(p)), 47)

\* path.relative(from, to), both absolute and normalised
Relative(from, to) ==
  LET f == Segments(from)
      t == Segments(to)
      same == {k \in 0..Min(Len(f), Len(t)) : \A i \in 1..k : f[i] = t[i]}
      c == CHOOSE k \in same : \A j \in same : j <= k
  IN  Join([i \in 1..(Len(f) - c) |-> <<46, 46>>] \o SubSeq(t, c + 1, Len(t)), <<47>>)

(***************************************************************************)
(* Transport encoding: Buffer.from(text).toString("base64") and            *)
(* Buffer.from(content, "base64").toString().                              *)
(***************************************************************************)
IsHigh(u) == u >= 55296 /\ u <= 56319
IsLow(u) == u >= 56320 /\ u <= 57343

\* the UTF-8 bytes of code point cp
Utf8Bytes(cp) ==
  IF cp < 128 THEN <<cp>>
  ELSE IF cp < 2048 THEN <<192 + (cp \div 64), 128 + (cp % 64)>>
  ELSE IF cp < 65536
       THEN <<224 + (cp \div 4096), 128 + ((cp \div 64) % 64), 128 + (cp % 64)>>
  ELSE <<240 + (cp \div 262144), 128 + ((cp \div 4096) % 64),
         128 + ((cp \div 64) % 64), 128 + (cp % 64)>>

\* the concatenation of parts[lo], ..., parts[hi]
RECURSIVE Concat(_, _, _)
Concat(parts, lo, hi) ==
  IF lo > hi THEN <<>>
  ELSE IF lo = hi THEN parts[lo]
  ELSE LET mid == (lo + hi) \div 2
       IN  Concat(parts, lo, mid) \o Concat(parts, mid + 1, hi)

\* Buffer.from(text): a surrogate pair is one code point, a lone surrogate
\* is written as U+FFFD
Utf8Encode(text) ==
  LET Paired(i) == IsHigh(text[i]) /\ i < Len(text) /\ IsLow(text[i + 1])
      At(i) ==
        IF Paired(i)
        THEN Utf8Bytes(65536 + (text[i] - 55296) * 1024 + (text[i + 1] - 56320))
        ELSE IF IsLow(text[i]) /\ i > 1 /\ Paired(i - 1) THEN <<>>
        ELSE IF IsHigh(text[i]) \/ IsLow(text[i]) THEN Utf8Bytes(65533)
        ELSE Utf8Bytes(text[i])
  IN  Concat([i \in 1..Len(text) |-> At(i)], 1, Len(text))

\* the code units of code point cp
CodeUnits(cp) ==
  IF cp < 65536 THEN <<cp>>
  ELSE <<55296 + ((cp - 65536) \div 1024), 56320 + ((cp - 65536) % 1024)>>

\* the length of the UTF-8 sequence a byte starts (0: it starts none)
LeadLen(x) ==
  IF x < 128 THEN 1
  ELSE IF x >= 192 /\ x < 224 THEN 2
  ELSE IF x >= 224 /\ x < 240 THEN 3
  ELSE IF x >= 240 /\ x < 248 THEN 4
  ELSE 0

\* buffer.toString(): a byte that is part of no well-formed sequence reads
\* as U+FFFD
Utf8Decode(b) ==
  LET Cont(i) == i <= Len(b) /\ b[i] >= 128 /\ b[i] < 192
      Starts(i) == i >= 1 /\ LeadLen(b[i]) >= 1
                     /\ \A k \in 1..(LeadLen(b[i]) - 1) : Cont(i + k)
      Consumed(i) == \E k \in 1..3 : Starts(i - k) /\ k < LeadLen(b[i - k])
      At(i) ==
        IF Starts(i)
        THEN CodeUnits(
               CASE LeadLen(b[i]) = 1 -> b[i]
                 [] LeadLen(b[i]) = 2 -> (b[i] - 192) * 64 + (b[i + 1] - 128)
                 [] LeadLen(b[i]) = 3 ->
                      (b[i] - 224) * 4096 + (b[i + 1] - 128) * 64 + (b[i + 2] - 128)
                 [] OTHER ->
                      (b[i] - 240) * 262144 + (b[i + 1] - 128) * 4096
                        + (b[i + 2] - 128) * 64 + (b[i + 3] - 128))
        ELSE IF Consumed(i) THEN <<>>
        ELSE <<65533>>
  IN  Concat([i \in 1..Len(b) |-> At(i)], 1, Len(b))

\* the base64 character of a 6-bit value: A-Z a-z 0-9 + /
B64Char(v) ==
  IF v < 26 THEN 65 + v
  ELSE IF v < 52 THEN 97 + (v - 26)
  ELSE IF v < 62 THEN 48 + (v - 52)
  ELSE IF v = 62 THEN 43 ELSE 47

IsB64Char(ch) ==
  \/ ch >= 65 /\ ch <= 90
  \/ ch >= 97 /\ ch <= 122
  \/ ch >= 48 /\ ch <= 57
  \/ ch = 43
  \/ ch = 47

B64Value(ch) ==
  IF ch >= 65 /\ ch <= 90 THEN ch - 65
  ELSE IF ch >= 97 /\ ch <= 122 THEN ch - 97 + 26
  ELSE IF ch >= 48 /\ ch <= 57 THEN ch - 48 + 52
  ELSE IF ch = 43 THEN 62 ELSE 63

\* buffer.toString("base64"), padded with "="
Base64Encode(b) ==
  LET n == Len(b)
      At(k) == IF k <= n THEN b[k] ELSE 0
  IN  [i \in 1..(4 * ((n + 2) \div 3)) |->
         LET g == (i - 1) \div 4
             k == (i - 1) % 4
             b0 == At(3 * g + 1)
             b1 == At(3 * g + 2)
             b2 == At(3 * g + 3)
         IN  IF k = 0 THEN B64Char(b0 \div 4)
             ELSE IF k = 1 THEN B64Char((b0 % 4) * 16 + (b1 \div 16))
             ELSE IF k = 2
                  THEN (IF 3 * g + 2 > n THEN 61 ELSE B64Char((b1 % 16) * 4 + (b2 \div 64)))
             ELSE (IF 3 * g + 3 > n THEN 61 ELSE B64Char(b2 % 64))]

\* Buffer.from(content, "base64"): characters outside the alphabet (the line
\* breaks of the store's response, the padding) are skipped
Base64Decode(content) ==
  LET v == SelectSeq(content, IsB64Char)
      m == Len(v)
      At(k) == IF k <= m THEN B64Value(v[k]) ELSE 0
  IN  [j \in 1..((m * 6) \div 8) |->
         LET g == (j - 1) \div 3
             k == (j - 1) % 3
             v0 == At(4 * g + 1)
             v1 == At(4 * g + 2)
             v2 == At(4 * g + 3)
             v3 == At(4 * g + 4)
         IN  IF k = 0 THEN v0 * 4 + (v1 \div 16)
             ELSE IF k = 1 THEN (v1 % 16) * 16 + (v2 \div 4)
             ELSE (v2 % 4) * 64 + v3]

\* Buffer.from(newContent).toString("base64")
Encode(text) == Base64Encode(Utf8Encode(text))

\* Buffer.from(data.content, "base64").toString()
Decode(content) == Utf8Decode(Base64Decode(content))

(***************************************************************************)
(* PathFilter                                                              *)
(***************************************************************************)
\* ignoreFilepath: strings are matched as substrings, regular expressions
\* /\.env$/ and /\.log$/ as suffixes
ignoreFilepath ==
  << [re |-> FALSE, s |-> strNodeModules], [re |-> TRUE, s |-> strEnv],
     [re |-> FALSE, s |-> strDist], [re |-> TRUE, s |-> strLog] >>

NeverIgnore(filePath, userPatterns) == FALSE

shouldIgnorePath(filePath, userPatterns) ==
  LET ignoredPatterns ==
        ignoreFilepath \o [i \in 1..Len(userPatterns) |-> [re |-> FALSE, s |-> userPatterns[i]]]
  IN  \E i \in 1..Len(ignoredPatterns) :
        IF ignoredPatterns[i].re
        THEN EndsWith(filePath, ignoredPatterns[i].s)
        ELSE Includes(filePath, ignoredPatterns[i].s)

(***************************************************************************)
(* State.                                                                  *)
(***************************************************************************)
VARIABLES
  ignoredPaths,       \* the setting gitDiary.ignoredPaths
  entries,            \* the contents a caller hands to updateDiaryEntry in turn
  today,              \* the clock: what new Date() reads
  opened,             \* documents the host has opened
  docText,            \* document.getText() of each document
  trackedDocuments,   \* Map document -> last snapshot
  listeners,          \* onDidChangeTextDocument listeners registered per document
  debounceTimers,     \* per document, the remaining ms of each pending debounced call
  intervalChangeLog,  \* the changelog, in key insertion order: <<[path, changes]>>
  nextId,             \* history: identity of the next record
  burst,              \* history, per document: edit events and recomputations since
  cycles,             \* the logActivity calls in progress, by slot
  remote,             \* the remote store: the dated document of each day
  remoteIds,          \* history: the records written into each dated document
  rendered,           \* history: the records of every drained entry, in order
  lost,               \* history: the records drained by a cycle that failed
  commitInterval,     \* the handle setInterval returned last (0: null)
  activeTimers,       \* the host's interval timers that are set and not cleared
  setups,             \* the calls of setupCommitInterval, by number
  subscriptions,      \* disposables pushed to context.subscriptions by the calls
  closed,             \* documents the host has closed
  session,            \* the session: active, or how far deactivate() has come
  disposed,           \* the host has disposed context.subscriptions
  reported,           \* history: the failures console.error was called for
  globalState,        \* context.globalState: <<>>, or <<v>> with v under "commitInterval"
  observed            \* history, per document: an open event for the open document
                      \* since its last edit, and whether its snapshot was stale

trackVars ==
  <<opened, docText, trackedDocuments, listeners, debounceTimers, burst, closed, observed>>
flushVars == <<cycles, remote, remoteIds, rendered, lost>>
schedVars == <<commitInterval, activeTimers, setups, subscriptions>>
hostVars == <<session, disposed, reported, globalState>>
vars ==
  <<ignoredPaths, entries, today, intervalChangeLog, nextId, trackVars, flushVars, schedVars,
    hostVars>>

(***************************************************************************)
(* The changelog.                                                          *)
(***************************************************************************)
LogKeys(log) == {log[i].path : i \in 1..Len(log)}

\* intervalChangeLog[filePath] || []
LogGet(log, filePath) ==
  IF filePath \in LogKeys(log)
  THEN (CHOOSE e \in {log[i] : i \in 1..Len(log)} : e.path = filePath).changes
  ELSE <<>>

\* intervalChangeLog[filePath] = v: an existing key keeps its place, a new
\* key comes last
LogSet(log, filePath, v) ==
  IF filePath \in LogKeys(log)
  THEN [i \in 1..Len(log) |->
          IF log[i].path = filePath THEN [path |-> filePath, changes |-> v] ELSE log[i]]
  ELSE Append(log, [path |-> filePath, changes |-> v])

\* every record of the changelog
LogRecords(log) ==
  UNION {{log[i].changes[j] : j \in 1..Len(log[i].changes)} : i \in 1..Len(log)}

LogIds(log) == {r.id : r \in LogRecords(log)}

(***************************************************************************)
(* ChangeTracker                                                           *)
(***************************************************************************)
\* String.prototype.split("\n")
SplitLines(s) == Split(s, 10)

\* lines[i] || ""   (i counted from 1 here)
LineAt(lines, i) == IF i <= Len(lines) THEN lines[i] ELSE <<>>

\* snippet + (currentLine.length > config.maxSnippetLength ? "..." : "")
SnippetWhole(currentLine) == currentLine

Snippet(currentLine) ==
  Slice0(currentLine, maxSnippetLength)
    \o (IF Len(currentLine) > maxSnippetLength THEN strEllipsis ELSE <<>>)

\* the changes of one recomputation, the first of them with identity firstId
ChangesOfCurrentLines(currentContent, previousContent, now, firstId) ==
  LET currentLines == SplitLines(currentContent)
      previousLines == SplitLines(previousContent)
      n == Len(currentLines)
      differ == {i \in 1..n : LineAt(currentLines, i) # LineAt(previousLines, i)}
      nth[k \in 1..Cardinality(differ)] ==
        CHOOSE i \in differ : Cardinality({j \in differ : j < i}) = k - 1
  IN  [k \in 1..Cardinality(differ) |->
         [type |-> "code_change",
          snippet |-> Snippet(LineAt(currentLines, nth[k])),
          operation |-> <<>>,
          lines |-> nth[k],
          timestamp |-> now,
          id |-> firstId + k - 1]]

Changes(currentContent, previousContent, now, firstId) ==
  LET currentLines == SplitLines(currentContent)
      previousLines == SplitLines(previousContent)
      n == Max(Len(currentLines), Len(previousLines))
      differ == {i \in 1..n : LineAt(currentLines, i) # LineAt(previousLines, i)}
      \* the k-th differing index
      nth[k \in 1..Cardinality(differ)] ==
        CHOOSE i \in differ : Cardinality({j \in differ : j < i}) = k - 1
  IN  [k \in 1..Cardinality(differ) |->
         [type |-> "code_change",
          snippet |-> Snippet(LineAt(currentLines, nth[k])),
          operation |-> <<>>,
          lines |-> nth[k],
          timestamp |-> now,
          id |-> firstId + k - 1]]

\* the timer of a debounced call: a call while one is pending supersedes it
DebounceQueued(pending) == Append(pending, debounceTime)

Debounce(pending) == <<debounceTime>>

NoBurst == [events |-> 0, runs |-> 0, quiet |-> 0]

\* a tracker that takes every document for a new one
HasNever(tracked, d) == FALSE

\* trackedDocuments.has(document)
Has(tracked, d) == d \in DOMAIN tracked

\* trackDocumentChanges(document)
trackDocumentChanges(d) ==
  IF shouldIgnorePath(FsPath(d), ignoredPaths) \/ Has(trackedDocuments, d)
  THEN UNCHANGED <<trackedDocuments, listeners>>
  ELSE /\ trackedDocuments' = (d :> docText'[d]) @@ trackedDocuments
       /\ listeners' = [listeners EXCEPT ![d] = @ + 1]

\* vscode.workspace.onDidOpenTextDocument((doc) => trackDocumentChanges(doc))
OpenDocument(d, text) ==
  /\ d \notin opened
  /\ opened' = opened \cup {d}
  /\ docText' = [docText EXCEPT ![d] = text]
  /\ trackDocumentChanges(d)
  /\ UNCHANGED <<hostVars, closed, observed, ignoredPaths, entries, today, debounceTimers,
                 intervalChangeLog, nextId, burst, flushVars, schedVars>>

\* the host emits onDidOpenTextDocument for a document that is open (its
\* language was changed): (doc) => trackDocumentChanges(doc)
ReobserveDocument(d) ==
  /\ d \in opened
  /\ d \notin closed
  /\ UNCHANGED docText
  /\ trackDocumentChanges(d)
  /\ observed' = [observed EXCEPT ![d] =
        IF d \in DOMAIN trackedDocuments /\ trackedDocuments[d] # docText[d]
        THEN "stale" ELSE "same"]
  /\ UNCHANGED <<hostVars, closed, ignoredPaths, entries, today, opened, debounceTimers,
                 intervalChangeLog, nextId, burst, flushVars, schedVars>>

\* a listener that calls its debounced function on every edit event
ListenerCallsAlways(document, e) == TRUE

\* the listener trackDocumentChanges(document) registers, given the event
\* of document e: if (e.document === document) debouncedChanges()
ListenerCalls(document, e) == e = document

\* an edit event: the host hands it to the listener of every tracked
\* document, and each listener decides whether to call its own
\* debouncedChanges()
EditDocument(d, text) ==
  /\ d \in opened
  /\ d \notin closed
  /\ docText' = [docText EXCEPT ![d] = text]
  /\ debounceTimers' = [x \in Docs |->
        IF listeners[x] > 0 /\ ListenerCalls(x, d)
        THEN Debounce(debounceTimers[x]) ELSE debounceTimers[x]]
  /\ burst' = [x \in Docs |->
        IF listeners[x] > 0 /\ ListenerCalls(x, d)
        THEN [events |-> Min(burst[x].events + 1, MaxBurst), runs |-> 0, quiet |-> 0]
        ELSE burst[x]]
  /\ observed' = [observed EXCEPT ![d] = "no"]
  /\ UNCHANGED <<hostVars, closed, ignoredPaths, entries, today, opened, trackedDocuments, listeners,
                 intervalChangeLog, nextId, flushVars, schedVars>>

\* the host closes a document: activate registers no handler for it
CloseDocument(d) ==
  /\ d \in opened
  /\ d \notin closed
  /\ closed' = closed \cup {d}
  /\ UNCHANGED <<hostVars, observed, ignoredPaths, entries, today, opened, docText,
                 trackedDocuments, listeners, debounceTimers, burst, intervalChangeLog, nextId,
                 flushVars, schedVars>>

\* time passes: no pending timer is due yet
Tick ==
  /\ \E d \in Docs : debounceTimers[d] # <<>>
  /\ \A d \in Docs : \A i \in 1..Len(debounceTimers[d]) : debounceTimers[d][i] > 0
  /\ debounceTimers' = [d \in Docs |->
        [i \in 1..Len(debounceTimers[d]) |-> Max(debounceTimers[d][i] - TickMs, 0)]]
  /\ burst' = [d \in Docs |->
        IF burst[d].events > 0
        THEN [burst[d] EXCEPT !.quiet = Min(@ + TickMs, debounceTime)]
        ELSE burst[d]]
  /\ UNCHANGED <<hostVars, closed, observed, ignoredPaths, entries, today, opened, docText,
                 trackedDocuments, listeners, intervalChangeLog, nextId, flushVars, schedVars>>

\* new records put before the file's earlier ones
ChangesFirst(earlier, changes) == changes \o earlier

\* [...(intervalChangeLog[filePath] || []), ...changes]
EarlierFirst(earlier, changes) == earlier \o changes

\* the debounced function runs (debouncedChanges)
Recompute(d) ==
  LET filePath == FsPath(d)
      currentContent == docText[d]
      previousContent == IF d \in DOMAIN trackedDocuments THEN trackedDocuments[d] ELSE <<>>
      changes == Changes(currentContent, previousContent, today, nextId)
  IN  /\ debounceTimers[d] # <<>>
      /\ Head(debounceTimers[d]) = 0
      /\ debounceTimers' = [debounceTimers EXCEPT ![d] = Tail(@)]
      /\ burst' = [burst EXCEPT ![d].runs = @ + 1]
      /\ IF currentContent = previousContent
         THEN UNCHANGED <<intervalChangeLog, nextId, trackedDocuments>>
         ELSE /\ nextId + Len(changes) <= MaxRecords + 1
              /\ intervalChangeLog' =
                   IF Len(changes) > 0
                   THEN LogSet(intervalChangeLog, filePath,
                               EarlierFirst(LogGet(intervalChangeLog, filePath), changes))
                   ELSE intervalChangeLog
              /\ nextId' = nextId + Len(changes)
              /\ trackedDocuments' = [trackedDocuments EXCEPT ![d] = currentContent]
      /\ UNCHANGED <<hostVars, closed, observed, ignoredPaths, entries, today, opened, docText,
                     listeners, flushVars, schedVars>>

(***************************************************************************)
(* FileOpTracker                                                           *)
(***************************************************************************)
FileRecord(operation, now, id) ==
  [type |-> "file_operation", snippet |-> <<>>, operation |-> operation,
   lines |-> 0, timestamp |-> now, id |-> id]

\* the appends of a batch, in order: <<[path, operation]>>
RECURSIVE FileOperationAppends(_, _)
FileOperationAppends(files, operation) ==
  IF files = <<>> THEN <<>>
  ELSE (IF shouldIgnorePath(Head(files), ignoredPaths) THEN <<>>
        ELSE <<[path |-> Head(files), operation |-> operation]>>)
       \o FileOperationAppends(Tail(files), operation)

\* the appends of a rename batch, in order
RECURSIVE FileRenameAppendsCoupled(_)
FileRenameAppendsCoupled(files) ==
  IF files = <<>> THEN <<>>
  ELSE LET oldPath == Head(files).oldUri
           newPath == Head(files).newUri
       IN  (IF ~shouldIgnorePath(oldPath, ignoredPaths)
            THEN <<[path |-> oldPath, operation |-> strRenamedTo \o Basename(newPath)],
                   [path |-> newPath, operation |-> strRenamedFrom \o Basename(oldPath)]>>
            ELSE <<>>)
           \o FileRenameAppendsCoupled(Tail(files))

RECURSIVE FileRenameAppends(_)
FileRenameAppends(files) ==
  IF files = <<>> THEN <<>>
  ELSE LET oldPath == Head(files).oldUri
           newPath == Head(files).newUri
       IN  (IF ~shouldIgnorePath(oldPath, ignoredPaths)
            THEN <<[path |-> oldPath, operation |-> strRenamedTo \o Basename(newPath)]>>
            ELSE <<>>)
           \o (IF ~shouldIgnorePath(newPath, ignoredPaths)
               THEN <<[path |-> newPath, operation |-> strRenamedFrom \o Basename(oldPath)]>>
               ELSE <<>>)
           \o FileRenameAppends(Tail(files))

\* intervalChangeLog[path] = [...(intervalChangeLog[path] || []), record], for
\* each append in turn
RECURSIVE AppendAll(_, _, _, _)
AppendAll(log, appends, now, id) ==
  IF appends = <<>> THEN log
  ELSE AppendAll(LogSet(log, Head(appends).path,
                        Append(LogGet(log, Head(appends).path),
                               FileRecord(Head(appends).operation, now, id))),
                 Tail(appends), now, id + 1)

\* tracker.trackFileOperations(event, operation)
trackFileOperations(files, operation) ==
  LET appends == FileOperationAppends(files, operation)
  IN  /\ nextId + Len(appends) <= MaxRecords + 1
      /\ intervalChangeLog' = AppendAll(intervalChangeLog, appends, today, nextId)
      /\ nextId' = nextId + Len(appends)
      /\ UNCHANGED <<hostVars, ignoredPaths, entries, today, trackVars, flushVars, schedVars>>

\* tracker.trackFileRename(event)
trackFileRename(files) ==
  LET appends == FileRenameAppends(files)
  IN  /\ nextId + Len(appends) <= MaxRecords + 1
      /\ intervalChangeLog' = AppendAll(intervalChangeLog, appends, today, nextId)
      /\ nextId' = nextId + Len(appends)
      /\ UNCHANGED <<hostVars, ignoredPaths, entries, today, trackVars, flushVars, schedVars>>

\* the batches of the host's file events
FileBatches ==
  {<<p>> : p \in FilePaths} \cup {<<p, q>> : p \in FilePaths, q \in FilePaths}
RenameBatches ==
  {<<[oldUri |-> p, newUri |-> q]>> : p \in FilePaths, q \in FilePaths}

(***************************************************************************)
(* ActivityAggregator                                                      *)
(***************************************************************************)
\* the host's locale rendering of a clock reading (toLocaleDateString,
\* toLocaleTimeString): here the digits of the reading
DateString(now) == Dec(now)
TimeString(now) == Dec(now)

\* one bullet line of a section
RenderChange(change) ==
  strBullet \o TimeString(change.timestamp) \o strBulletEnd
    \o (IF change.type = "code_change"
        THEN strModifiedLine \o Dec(change.lines) \o strSnipOpen \o change.snippet \o strTick
        ELSE change.operation)
    \o strNL

RECURSIVE RenderChanges(_)
RenderChanges(changes) ==
  IF changes = <<>> THEN <<>>
  ELSE RenderChange(Head(changes)) \o RenderChanges(Tail(changes))

\* the section of one file
RenderFile(entry) ==
  LET fileName == Basename(entry.path)
      fileDir == Relative(rootPath, Dirname(entry.path))
  IN  strH3 \o fileName \o strNLStar
        \o (IF fileDir # <<>> THEN fileDir ELSE strWorkspaceRoot) \o strStarNL
        \o RenderChanges(entry.changes) \o strNL

RECURSIVE RenderFiles(_)
RenderFiles(log) ==
  IF log = <<>> THEN <<>> ELSE RenderFile(Head(log)) \o RenderFiles(Tail(log))

\* the records of a changelog in the order they are rendered
RECURSIVE RenderedIds(_)
RenderedIds(log) ==
  IF log = <<>> THEN <<>>
  ELSE [j \in 1..Len(Head(log).changes) |-> Head(log).changes[j].id]
         \o RenderedIds(Tail(log))

\* what generateActivityContent leaves in intervalChangeLog
KeptLog == intervalChangeLog

ClearedLog == <<>>

\* generateActivityContent(): null (here <<>>) for an empty changelog;
\* otherwise the rendered entry, and the changelog is cleared
generateActivityContent(log, now) ==
  IF Len(log) = 0
  THEN [content |-> <<>>, log |-> log, ids |-> <<>>]
  ELSE [content |-> strH2 \o DateString(now) \o strSpace \o TimeString(now) \o strSep
                      \o RenderFiles(log),
        log |-> ClearedLog,
        ids |-> RenderedIds(log)]

(***************************************************************************)
(* The remote store (the contents API of the repository).                  *)
(***************************************************************************)
NoDocument == [exists |-> FALSE, bytes |-> <<>>, sha |-> 0]

\* the content of a GET response: base64 in lines of 60 characters
StoreContent(bytes) ==
  LET b == Base64Encode(bytes)
      n == Len(b)
      lines == (n + 59) \div 60
  IN  [i \in 1..(n + lines) |->
         IF i % 61 = 0 \/ i = n + lines THEN 10 ELSE b[i - (i \div 61)]]

\* a PUT is accepted when it names the revision the document has, or names
\* none and there is no document
StoreAccepts(doc, sha) == IF doc.exists THEN sha = doc.sha ELSE sha = 0

StorePut(doc, content) ==
  [exists |-> TRUE, bytes |-> Base64Decode(content), sha |-> doc.sha + 1]

(***************************************************************************)
(* DiaryStore client: updateDiaryEntry                                     *)
(***************************************************************************)
\* `${existingContent}${entrySeparator}## ${timeString}\n${content}`
EntryOnly(existingContent, timeString, content) ==
  strH2 \o timeString \o strNL \o content

NewContent(existingContent, timeString, content) ==
  LET entrySeparator == IF existingContent # <<>> THEN strSep ELSE <<>>
  IN  existingContent \o entrySeparator \o strH2 \o timeString \o strNL \o content

\* sha: sha || undefined   (0 stands for undefined)
NoSha(sha) == 0

PutSha(sha) == sha

NoFetch == [status |-> "none", found |-> FALSE, sha |-> 0, bytes |-> <<>>, ids |-> <<>>]
NoPut == [content |-> <<>>, sha |-> 0]
IdleCycle ==
  [pc |-> "idle", date |-> 0, content |-> <<>>, ids |-> <<>>, startId |-> 0,
   fetched |-> NoFetch, put |-> NoPut]

Range(f) == {f[i] : i \in DOMAIN f}
FreeSlots == {c \in 1..MaxCycles : cycles[c].pc = "idle"}
InFlight == {c \in 1..MaxCycles : cycles[c].pc # "idle"}

\* what logActivity does with the changelog once updateDiaryEntry has
\* returned or thrown: nothing
LogClearedAfterFlush(log, content) == <<>>

LogAfterFlush(log, content) == log

\* what becomes of a cycle whose updateDiaryEntry threw: it is over (there
\* is no catch and no retry)
RetriedCycle(cycle) == [cycle EXCEPT !.pc = "get"]

FailedCycle(cycle) == IdleCycle

\* updateDiaryEntry(token, username, content), up to its first suspension:
\* the date is read and the GET of that date's document is sent
updateDiaryEntry(content, ids) ==
  [IdleCycle EXCEPT !.pc = "get", !.date = today, !.content = content, !.ids = ids,
                    !.startId = nextId]

\* logActivity(token, username), up to its first suspension: the drain, and
\* for a drained entry the call of updateDiaryEntry
NoGuard(content) == TRUE

HasContent(content) == content # <<>>

logActivity ==
  LET drained == generateActivityContent(intervalChangeLog, today)
      c == CHOOSE x \in FreeSlots : \A y \in FreeSlots : x <= y
  IN  /\ FreeSlots # {}
      /\ intervalChangeLog' = drained.log
      /\ rendered' = rendered \o drained.ids
      /\ IF HasContent(drained.content)
         THEN cycles' = [cycles EXCEPT ![c] = updateDiaryEntry(drained.content, drained.ids)]
         ELSE UNCHANGED cycles
      /\ UNCHANGED <<ignoredPaths, entries, today, nextId, trackVars, remote, remoteIds, lost,
                     schedVars>>

\* the cycle ends with an error: its entry is dropped
CycleFails(c) ==
  /\ cycles' = [cycles EXCEPT ![c] = FailedCycle(cycles[c])]
  /\ lost' = lost \cup Range(cycles[c].ids)
  /\ intervalChangeLog' = LogAfterFlush(intervalChangeLog, cycles[c].content)

\* the call of logActivity returns to its caller. The timer's callback
\* drops the promise; deactivate() awaits it, and its catch calls
\* console.error
CallerResumes(c, failed) ==
  IF session.pc = "flush" /\ session.ids = cycles[c].ids
  THEN /\ session' = [pc |-> "ended", ids |-> <<>>]
       /\ reported' = IF failed THEN reported \cup Range(cycles[c].ids) ELSE reported
       /\ UNCHANGED <<disposed, globalState>>
  ELSE UNCHANGED hostVars

\* catch (error) { if (error.response?.status !== 404) throw error; }
Swallowed(failure) == FALSE

Rethrown(failure) == failure

\* the GET returns: 200 with the document, 404, or any other failure
GetReturns(c, failure) ==
  LET doc == remote[cycles[c].date]
      found == doc.exists /\ ~failure
      sha == IF found THEN doc.sha ELSE 0
      existingContent == IF found THEN Decode(StoreContent(doc.bytes)) ELSE <<>>
  IN  /\ cycles[c].pc = "get"
      /\ IF Rethrown(failure)
         THEN /\ CycleFails(c)
              /\ CallerResumes(c, TRUE)
              /\ UNCHANGED <<remote, remoteIds>>
         ELSE /\ cycles' = [cycles EXCEPT ![c] =
                   [@ EXCEPT !.pc = "put",
                             !.fetched = [status |-> IF failure THEN "error"
                                                     ELSE IF doc.exists THEN "ok"
                                                     ELSE "notfound",
                                          found |-> found, sha |-> sha,
                                          bytes |-> IF found THEN doc.bytes ELSE <<>>,
                                          ids |-> IF found THEN remoteIds[cycles[c].date]
                                                  ELSE <<>>],
                             !.put = [content |->
                                         Encode(NewContent(existingContent,
                                                           TimeString(cycles[c].date),
                                                           cycles[c].content)),
                                      sha |-> PutSha(sha)]]]
              /\ UNCHANGED <<remote, remoteIds, lost, intervalChangeLog, hostVars>>
      /\ UNCHANGED <<ignoredPaths, entries, today, nextId, trackVars, rendered, schedVars>>

\* what becomes of a cycle whose PUT was rejected or failed: the error
\* leaves updateDiaryEntry
RefetchedCycle(cycle) == [cycle EXCEPT !.pc = "get"]

RejectedCycle(cycle) == FailedCycle(cycle)

\* the PUT returns: accepted by the store, rejected by it (stale or missing
\* revision), or failed on the way
PutReturns(c, failure) ==
  LET day == cycles[c].date
      doc == remote[day]
  IN  /\ cycles[c].pc = "put"
      /\ IF ~failure /\ StoreAccepts(doc, cycles[c].put.sha)
         THEN /\ remote' = [remote EXCEPT ![day] = StorePut(doc, cycles[c].put.content)]
              /\ remoteIds' = [remoteIds EXCEPT ![day] = cycles[c].fetched.ids \o cycles[c].ids]
              /\ cycles' = [cycles EXCEPT ![c] = IdleCycle]
              /\ intervalChangeLog' = LogAfterFlush(intervalChangeLog, cycles[c].content)
              /\ CallerResumes(c, FALSE)
              /\ UNCHANGED lost
         ELSE /\ cycles' = [cycles EXCEPT ![c] = RejectedCycle(cycles[c])]
              /\ lost' = lost \cup Range(cycles[c].ids)
              /\ intervalChangeLog' = LogAfterFlush(intervalChangeLog, cycles[c].content)
              /\ IF RejectedCycle(cycles[c]).pc = "idle"
                 THEN CallerResumes(c, TRUE)
                 ELSE UNCHANGED hostVars
              /\ UNCHANGED <<remote, remoteIds>>
      /\ UNCHANGED <<ignoredPaths, entries, today, nextId, trackVars, rendered, schedVars>>

(***************************************************************************)
(* Scheduler                                                               *)
(***************************************************************************)
\* the session before deactivate() is called
Active == [pc |-> "active", ids |-> <<>>]

\* A number of milliseconds is kept as <<q, r>>, standing for q * 60000 + r
\* with 0 <= r < 60000: the products the code forms exceed 2^31 - 1.
Times60000(minutes) == <<minutes, 0>>

MsLeq(a, b) == a[1] < b[1] \/ (a[1] = b[1] /\ a[2] <= b[2])

\* the longest delay the host's timers take: 2^31 - 1 ms
TIMEOUT_MAX == <<35791, 23647>>

\* setInterval(callback, intervalMs) of the extension host: a delay that is
\* not within 1..TIMEOUT_MAX is replaced by 1 ms
SetInterval(intervalMs) ==
  IF MsLeq(<<0, 1>>, intervalMs) /\ MsLeq(intervalMs, TIMEOUT_MAX) THEN intervalMs ELSE <<0, 1>>

\* what a request of setupCommitInterval's helpers is answered with: 201
\* stands for success, 422 is the remote's "already exists", 500 any other
\* error status, and 0 a request that got no response (error.response is
\* undefined)
Statuses == {201, 422, 500, 0}

\* status: the answer createGitHubRepo's POST got (history; 201 before)
\* delay: the delay the host runs the call's timer with, once it is set
NoSetup == [pc |-> "none", intervalMs |-> <<0, 0>>, status |-> 201, delay |-> <<0, 0>>]

\* createGitHubRepo rethrowing whatever the POST failed with
createGitHubRepoStrict(status) == status # 201

\* createGitHubRepo: TRUE when the call throws. A rejected POST is rethrown
\* unless error.response.status is 422; without a response, reading
\* error.response.status throws in the catch block
createGitHubRepo(status) == status # 201 /\ status # 422

\* if (commitInterval) clearInterval(commitInterval)
ClearInterval(timers, handle) == timers \ {handle}

\* setupCommitInterval(context, intervalMs), up to its first suspension
\* (await authenticate): the timer last set is cleared
SetupStarts(k, intervalMs) ==
  /\ setups[k].pc = "none"
  /\ \A j \in 1..(k - 1) : setups[j].pc # "none"
  /\ activeTimers' = ClearInterval(activeTimers, commitInterval)
  /\ setups' = [setups EXCEPT ![k] = [pc |-> "auth", intervalMs |-> intervalMs, status |-> 201,
                                        delay |-> <<0, 0>>]]
  /\ UNCHANGED <<commitInterval, subscriptions>>

\* the timers after commitInterval = setInterval(...) of call k
TimersAfterSet(timers, handle, k) == timers \cup {k}

\* authenticate, getGitHubUsername and createGitHubRepo are answered in
\* turn; a failure of the first two rejects the call, and so does
\* createGitHubRepo when it throws. After the last, the timer is set and its
\* disposable pushed.
SetupResumes(k, status) ==
  /\ setups[k].pc \in {"auth", "user", "repo"}
  /\ IF (IF setups[k].pc = "repo" THEN createGitHubRepo(status) ELSE status # 201)
     THEN /\ setups' = [setups EXCEPT ![k].pc = "failed",
                                      ![k].status = IF setups[k].pc = "repo" THEN status ELSE @]
          /\ UNCHANGED <<commitInterval, activeTimers, subscriptions>>
     ELSE IF setups[k].pc = "auth"
     THEN /\ setups' = [setups EXCEPT ![k].pc = "user"]
          /\ UNCHANGED <<commitInterval, activeTimers, subscriptions>>
     ELSE IF setups[k].pc = "user"
     THEN /\ setups' = [setups EXCEPT ![k].pc = "repo"]
          /\ UNCHANGED <<commitInterval, activeTimers, subscriptions>>
     ELSE /\ setups' = [setups EXCEPT ![k].pc = "done", ![k].status = status,
                                      ![k].delay = SetInterval(setups[k].intervalMs)]
          /\ activeTimers' = TimersAfterSet(activeTimers, commitInterval, k)
          /\ commitInterval' = k
          /\ subscriptions' = subscriptions + 1
  /\ UNCHANGED <<hostVars, ignoredPaths, entries, today, intervalChangeLog, nextId, trackVars, flushVars>>

\* what the input box resolves to
str1 == <<49>>   \* "1"
str30 == <<51, 48>>   \* "30"
str5 == <<53>>   \* "5"
strMinus5 == <<45, 53>>   \* "-5"
str0 == <<48>>   \* "0"
strAbc == <<97, 98, 99>>   \* "abc"
str12abc == <<49, 50, 97, 98, 99>>   \* "12abc"
str1p5 == <<49, 46, 53>>   \* "1.5"
strSp7 == <<32, 55>>   \* " 7"
str0x10 == <<48, 120, 49, 48>>   \* "0x10"
str99999 == <<57, 57, 57, 57, 57>>   \* "99999"
\* a dismissed prompt resolves to undefined, which parseInt reads as the
\* string "undefined"
strUndefined == <<117, 110, 100, 101, 102, 105, 110, 101, 100>>

\* StrWhiteSpaceChar
IsWhiteSpace(u) ==
  u \in {9, 10, 11, 12, 13, 32, 160, 5760, 8232, 8233, 8239, 8287, 12288, 65279}
         \cup 8192..8202

RECURSIVE SkipWhiteSpace(_)
SkipWhiteSpace(s) ==
  IF s # <<>> /\ IsWhiteSpace(Head(s)) THEN SkipWhiteSpace(Tail(s)) ELSE s

\* the value of a code unit as a digit: 0-9, a-z, A-Z; 36 for any other
DigitValue(u) ==
  IF u \in 48..57 THEN u - 48
  ELSE IF u \in 97..122 THEN u - 87
  ELSE IF u \in 65..90 THEN u - 55
  ELSE 36

NaN == [nan |-> TRUE, n |-> 0]

\* the digits of the radix at the start of s, as a number; NaN if none
RECURSIVE ParseDigits(_, _, _, _)
ParseDigits(s, radix, acc, any) ==
  IF s # <<>> /\ DigitValue(Head(s)) < radix
  THEN ParseDigits(Tail(s), radix, acc * radix + DigitValue(Head(s)), TRUE)
  ELSE IF any THEN [nan |-> FALSE, n |-> acc] ELSE NaN

\* parseInt(string) without a radix: leading white space is skipped, a sign
\* is taken, "0x" or "0X" selects radix 16, and the digits that follow are
\* read up to the first code unit that is none
parseInt(string) ==
  LET t == SkipWhiteSpace(string)
      signed == t # <<>> /\ Head(t) \in {43, 45}
      sign == IF t # <<>> /\ Head(t) = 45 THEN 0 - 1 ELSE 1
      u == IF signed THEN Tail(t) ELSE t
      hex == Len(u) >= 2 /\ u[1] = 48 /\ u[2] \in {120, 88}
      z == ParseDigits(IF hex THEN SubSeq(u, 3, Len(u)) ELSE u,
                       IF hex THEN 16 ELSE 10, 0, FALSE)
  IN  [z EXCEPT !.n = sign * @]

\* Math.max(1, parseInt(interval) || DEFAULT_INTERVAL): NaN and 0 are falsy
Minutes(interval) ==
  LET p == parseInt(interval)
  IN  Max(1, IF p.nan \/ p.n = 0 THEN DEFAULT_INTERVAL ELSE p.n)

\* the git-diary.changeInterval command: the input box resolves to
\* interval, the minutes are stored under "commitInterval" and
\* setupCommitInterval is called with minutes * 60000
ChangeInterval(k, interval) ==
  /\ globalState' = <<Minutes(interval)>>
  /\ SetupStarts(k, Times60000(Minutes(interval)))
  /\ UNCHANGED <<session, disposed, reported, ignoredPaths, entries, today, intervalChangeLog,
                 nextId, trackVars, flushVars>>

\* an interval timer fires: () => logActivity(token, username)
TimerFires(t) ==
  /\ t \in activeTimers
  /\ logActivity
  /\ UNCHANGED hostVars

\* the date changes
Midnight ==
  /\ today < MaxDay
  /\ today' = today + 1
  /\ UNCHANGED <<hostVars, ignoredPaths, entries, intervalChangeLog, nextId, trackVars, flushVars, schedVars>>

\* deactivate(), up to its first suspension: the timer last set is cleared
\* and extensionContext.secrets.get is awaited
Deactivate ==
  /\ session.pc = "active"
  /\ activeTimers' = ClearInterval(activeTimers, commitInterval)
  /\ session' = [pc |-> "token", ids |-> <<>>]
  /\ UNCHANGED <<ignoredPaths, entries, today, intervalChangeLog, nextId, trackVars, flushVars,
                 commitInterval, setups, subscriptions, disposed, reported, globalState>>

\* the session once deactivate() has returned
Ended == [pc |-> "ended", ids |-> <<>>]

\* deactivate() resumes: secrets.get and getGitHubUsername resolve in turn,
\* then logActivity is called and awaited; an error of any of them is caught
\* and passed to console.error (0 stands for an error of the two lookups)
DeactivateResumes(failure) ==
  /\ session.pc \in {"token", "user"}
  /\ IF failure
     THEN /\ session' = Ended
          /\ reported' = reported \cup {0}
          /\ UNCHANGED <<intervalChangeLog, rendered, cycles, disposed>>
     ELSE IF session.pc = "token"
     THEN /\ session' = [pc |-> "user", ids |-> <<>>]
          /\ UNCHANGED <<intervalChangeLog, rendered, cycles, disposed, reported>>
     ELSE /\ logActivity
          /\ session' = IF cycles' # cycles
                        THEN [pc |-> "flush",
                              ids |-> generateActivityContent(intervalChangeLog, today).ids]
                        ELSE Ended
          /\ UNCHANGED <<disposed, reported>>
  /\ UNCHANGED <<ignoredPaths, entries, today, nextId, trackVars, remote, remoteIds, lost,
                 schedVars, globalState>>

\* the host disposes context.subscriptions once deactivate() has been
\* called: each disposable pushed by setupCommitInterval runs
\* clearInterval(commitInterval)
Dispose ==
  /\ session.pc # "active"
  /\ ~disposed
  /\ disposed' = TRUE
  /\ activeTimers' = IF subscriptions > 0 THEN ClearInterval(activeTimers, commitInterval)
                     ELSE activeTimers
  /\ UNCHANGED <<ignoredPaths, entries, today, intervalChangeLog, nextId, trackVars, flushVars,
                 commitInterval, setups, subscriptions, session, reported, globalState>>

(***************************************************************************)
(* Specification.                                                          *)
(***************************************************************************)
Init ==
  /\ ignoredPaths \in IgnoredPathsSettings
  /\ entries = <<>>
  /\ today = 1
  /\ opened = {}
  /\ docText = [d \in Docs |-> <<>>]
  /\ trackedDocuments = <<>>
  /\ listeners = [d \in Docs |-> 0]
  /\ debounceTimers = [d \in Docs |-> <<>>]
  /\ intervalChangeLog = <<>>
  /\ nextId = 1
  /\ burst = [d \in Docs |-> NoBurst]
  /\ cycles = [c \in 1..MaxCycles |-> IdleCycle]
  /\ remote = [day \in 1..MaxDay |-> NoDocument]
  /\ remoteIds = [day \in 1..MaxDay |-> <<>>]
  /\ rendered = <<>>
  /\ lost = {}
  /\ commitInterval = 1
  /\ activeTimers = {1}
  /\ setups = [k \in 1..MaxSetups |-> IF k = 1 THEN [pc |-> "done", intervalMs |-> Times60000(DEFAULT_INTERVAL), status |-> 201, delay |-> Times60000(DEFAULT_INTERVAL)] ELSE NoSetup]
  /\ subscriptions = 1
  /\ closed = {}
  /\ observed = [d \in Docs |-> "no"]
  /\ session = Active
  /\ disposed = FALSE
  /\ reported = {}
  /\ globalState = <<>>

NextFlush ==
  \/ \E t \in 1..MaxSetups : TimerFires(t)
  \/ \E c \in 1..MaxCycles : \E failure \in BOOLEAN : GetReturns(c, failure)
  \/ \E c \in 1..MaxCycles : \E failure \in BOOLEAN : PutReturns(c, failure)
  \/ Midnight

\* the whole pipeline, from one document and one file event to the remote
\* document
Next ==
  \/ OpenDocument("d1", textA)
  \/ \E text \in {textA, textAB} : EditDocument("d1", text)
  \/ Tick
  \/ Recompute("d1")
  \/ trackFileOperations(<<pathB>>, strCreated)
  \/ NextFlush

\* no user pattern is configured
InitDefault == Init /\ ignoredPaths = <<>>

Spec == InitDefault /\ [][Next]_vars

\* the scheduler, from the return of activate(): its call of
\* setupCommitInterval is suspended in authenticate
InitSched ==
  /\ ignoredPaths = <<>>
  /\ entries = <<>>
  /\ today = 1
  /\ opened = {}
  /\ docText = [d \in Docs |-> <<>>]
  /\ trackedDocuments = <<>>
  /\ listeners = [d \in Docs |-> 0]
  /\ debounceTimers = [d \in Docs |-> <<>>]
  /\ intervalChangeLog = <<>>
  /\ nextId = 1
  /\ burst = [d \in Docs |-> NoBurst]
  /\ cycles = [c \in 1..MaxCycles |-> IdleCycle]
  /\ remote = [day \in 1..MaxDay |-> NoDocument]
  /\ remoteIds = [day \in 1..MaxDay |-> <<>>]
  /\ rendered = <<>>
  /\ lost = {}
  /\ commitInterval = 0
  /\ activeTimers = {}
  /\ setups = [k \in 1..MaxSetups |->
                 IF k = 1 THEN [pc |-> "auth", intervalMs |-> Times60000(DEFAULT_INTERVAL),
                                status |-> 201, delay |-> <<0, 0>>]
                 ELSE NoSetup]
  /\ subscriptions = 0
  /\ closed = {}
  /\ observed = [d \in Docs |-> "no"]
  /\ session = Active
  /\ disposed = FALSE
  /\ reported = {}
  /\ globalState = <<>>

\* what the command is given
IntervalInputs == {str1, str30}

NextSched ==
  \/ \E k \in 1..MaxSetups : \E interval \in IntervalInputs : ChangeInterval(k, interval)
  \/ \E k \in 1..MaxSetups : \E status \in Statuses : SetupResumes(k, status)
  \/ \E t \in 1..MaxSetups : TimerFires(t)
  \/ trackFileOperations(<<pathB>>, strCreated)
  \/ \E c \in 1..MaxCycles : \E failure \in BOOLEAN : GetReturns(c, failure)
  \/ \E c \in 1..MaxCycles : \E failure \in BOOLEAN : PutReturns(c, failure)

SpecSched == InitSched /\ [][NextSched]_vars

\* the scheduler and the end of the session: deactivate() may be called at
\* any time, and the command is available while the session is active
InvokeChangeInterval(k, interval) ==
  /\ session.pc = "active"
  /\ ChangeInterval(k, interval)

NextShutdown ==
  \/ \E k \in 1..MaxSetups : \E interval \in IntervalInputs : InvokeChangeInterval(k, interval)
  \/ \E k \in 1..MaxSetups : \E status \in {201, 500} : SetupResumes(k, status)
  \/ \E t \in 1..MaxSetups : TimerFires(t)
  \/ trackFileOperations(<<pathB>>, strCreated)
  \/ \E c \in 1..MaxCycles : \E failure \in BOOLEAN : GetReturns(c, failure)
  \/ \E c \in 1..MaxCycles : \E failure \in BOOLEAN : PutReturns(c, failure)
  \/ Deactivate
  \/ \E failure \in BOOLEAN : DeactivateResumes(failure)
  \/ Dispose

SpecShutdown == InitSched /\ [][NextShutdown]_vars

\* the change tracker and the file-operation tracker
TrackPaths == {pathB, pathLog, pathTmp}
TrackBatches == {<<p>> : p \in TrackPaths} \cup {<<pathLog, pathB>>}
TrackRenames == {<<[oldUri |-> p, newUri |-> q]>> : p \in TrackPaths, q \in TrackPaths}

NextTrack ==
  \/ \E d \in {"d1", "d2"} : OpenDocument(d, textA)
  \/ \E d \in {"d1", "d2"} : \E text \in {textA, textAB} : EditDocument(d, text)
  \/ Tick
  \/ \E d \in {"d1", "d2"} : Recompute(d)
  \/ \E files \in TrackBatches : trackFileOperations(files, strCreated)
  \/ \E files \in TrackBatches : trackFileOperations(files, strDeleted)
  \/ \E files \in TrackRenames : trackFileRename(files)

SpecTrack == Init /\ [][NextTrack]_vars

\* the change tracker alone
NextDocs ==
  \/ \E d \in Docs : \E text \in Texts : OpenDocument(d, text)
  \/ \E d \in Docs : \E text \in Texts : EditDocument(d, text)
  \/ Tick
  \/ \E d \in Docs : Recompute(d)

SpecDocs == InitDefault /\ [][NextDocs]_vars

\* the file-operation tracker alone
NextFiles ==
  \/ \E files \in FileBatches : trackFileOperations(files, strCreated)
  \/ \E files \in FileBatches : trackFileOperations(files, strDeleted)
  \/ \E files \in RenameBatches : trackFileRename(files)

SpecFiles == Init /\ [][NextFiles]_vars

\* updateDiaryEntry alone: two entries are appended to the document of one
\* day, the second once the call for the first has returned
lineLong == [i \in 1..(maxSnippetLength + 1) |-> 97]
lineSplit ==
  [i \in 1..(maxSnippetLength + 1) |->
     IF i = maxSnippetLength THEN 55357
     ELSE IF i = maxSnippetLength + 1 THEN 56832 ELSE 97]
AppendLines == {textA, <<233>>, <<8364, 98>>, <<55357, 56832>>, lineLong, lineSplit}

\* the entry generateActivityContent renders for a document of one line
EntryOf(line) ==
  generateActivityContent(<<[path |-> pathA, changes |-> Changes(line, <<>>, 1, 1)]>>, 1).content

InitAppend ==
  /\ ignoredPaths = <<>>
  /\ \E l1 \in AppendLines : \E l2 \in AppendLines : entries = <<EntryOf(l1), EntryOf(l2)>>
  /\ today = 1
  /\ opened = {}
  /\ docText = [d \in Docs |-> <<>>]
  /\ trackedDocuments = <<>>
  /\ listeners = [d \in Docs |-> 0]
  /\ debounceTimers = [d \in Docs |-> <<>>]
  /\ intervalChangeLog = <<>>
  /\ nextId = 1
  /\ burst = [d \in Docs |-> NoBurst]
  /\ cycles = [c \in 1..MaxCycles |-> IdleCycle]
  /\ remote = [day \in 1..MaxDay |-> NoDocument]
  /\ remoteIds = [day \in 1..MaxDay |-> <<>>]
  /\ rendered = <<>>
  /\ lost = {}
  /\ commitInterval = 1
  /\ activeTimers = {1}
  /\ setups = [k \in 1..MaxSetups |-> IF k = 1 THEN [pc |-> "done", intervalMs |-> Times60000(DEFAULT_INTERVAL), status |-> 201, delay |-> Times60000(DEFAULT_INTERVAL)] ELSE NoSetup]
  /\ subscriptions = 1
  /\ closed = {}
  /\ observed = [d \in Docs |-> "no"]
  /\ session = Active
  /\ disposed = FALSE
  /\ reported = {}
  /\ globalState = <<>>

\* await updateDiaryEntry(token, username, content) with the next entry
AppendEntry ==
  /\ InFlight = {}
  /\ remote[today].sha < Len(entries)
  /\ cycles' = [cycles EXCEPT ![1] = updateDiaryEntry(entries[remote[today].sha + 1], <<>>)]
  /\ UNCHANGED <<hostVars, ignoredPaths, entries, today, intervalChangeLog, nextId, trackVars, remote,
                 remoteIds, rendered, lost, schedVars>>

NextAppend ==
  \/ AppendEntry
  \/ \E failure \in BOOLEAN : GetReturns(1, failure)
  \/ \E failure \in BOOLEAN : PutReturns(1, failure)

SpecAppend == InitAppend /\ [][NextAppend]_vars

\* the change tracker on one document whose lines are under, at and over
\* maxSnippetLength
line300 == [i \in 1..maxSnippetLength |-> 97]
SnippetTexts == {textA, line300, lineLong, lineSplit, textA \o strNL \o lineLong}

NextSnippet ==
  \/ \E text \in SnippetTexts : OpenDocument("d1", text)
  \/ \E text \in SnippetTexts : EditDocument("d1", text)
  \/ Tick
  \/ Recompute("d1")

SpecSnippet == InitDefault /\ [][NextSnippet]_vars

\* the change tracker on one document whose texts differ in one, two and
\* three lines, in length, and from the empty text
textBBC == <<98, 10, 98, 10, 99>>   \* "b\nb\nc"
DiffTexts == {<<>>, textA, textAB, textAC, textBBC}

NextDiff ==
  \/ \E text \in DiffTexts : OpenDocument("d1", text)
  \/ \E text \in DiffTexts : EditDocument("d1", text)
  \/ Tick
  \/ Recompute("d1")

SpecDiff == InitDefault /\ [][NextDiff]_vars

\* the change tracker with documents being closed
CloseDocs == {"d1", "d3"}
CloseTexts == {textA, textAB}

NextClose ==
  \/ \E d \in CloseDocs : \E text \in CloseTexts : OpenDocument(d, text)
  \/ \E d \in CloseDocs : \E text \in CloseTexts : EditDocument(d, text)
  \/ \E d \in CloseDocs : CloseDocument(d)
  \/ Tick
  \/ \E d \in CloseDocs : Recompute(d)

SpecClose == InitDefault /\ [][NextClose]_vars

\* the command given any input, while activate()'s call of
\* setupCommitInterval is in progress or over
Inputs ==
  {str1, str30, str5, strMinus5, str0, strAbc, <<>>, strUndefined, str12abc, str1p5, strSp7,
   str0x10, str99999}

NextInterval ==
  \/ \E k \in 1..MaxSetups : \E interval \in Inputs : ChangeInterval(k, interval)
  \/ \E k \in 1..MaxSetups : \E status \in Statuses : SetupResumes(k, status)

SpecInterval == InitSched /\ [][NextInterval]_vars

\* documents observed again while open: a tracked one and one on an
\* ignored path
ObserveDocs == {"d1", "d2"}

NextObserve ==
  \/ \E d \in ObserveDocs : OpenDocument(d, textA)
  \/ \E d \in ObserveDocs : ReobserveDocument(d)
  \/ \E d \in ObserveDocs : \E text \in Texts : EditDocument(d, text)
  \/ Tick
  \/ \E d \in ObserveDocs : Recompute(d)

SpecObserve == InitDefault /\ [][NextObserve]_vars

\* two tracked documents edited while flush cycles run
PairDocs == {"d1", "d3"}

NextPair ==
  \/ \E d \in PairDocs : OpenDocument(d, textA)
  \/ \E d \in PairDocs : EditDocument(d, textAB)
  \/ Tick
  \/ \E d \in PairDocs : Recompute(d)
  \/ \E t \in 1..MaxSetups : TimerFires(t)
  \/ \E c \in 1..MaxCycles : \E failure \in BOOLEAN : GetReturns(c, failure)
  \/ \E c \in 1..MaxCycles : \E failure \in BOOLEAN : PutReturns(c, failure)

SpecPair == InitDefault /\ [][NextPair]_vars

(***************************************************************************)
(* Properties.                                                             *)
(***************************************************************************)
IsPrefix(a, b) == Len(a) <= Len(b) /\ SubSeq(b, 1, Len(a)) = a

\* C1: after a burst of edit events on a tracked document, each arriving
\* within the quiet period of the one before, at most one debounced call is
\* pending; while it is pending no recomputation has run since the last
\* event and it is due exactly debounceTime after that event; once it is no
\* longer pending exactly one recomputation has run, after the whole quiet
\* period, and it read the final text (the snapshot is the document's text).
C1_OneRecomputationPerBurst ==
  \A d \in Docs :
    /\ Len(debounceTimers[d]) <= 1
    /\ burst[d].runs <= 1
    /\ burst[d].events > 0 =>
         /\ (burst[d].runs = 1) <=> (debounceTimers[d] = <<>>)
         /\ debounceTimers[d] # <<>> =>
              debounceTimers[d][1] = debounceTime - burst[d].quiet
         /\ burst[d].runs = 1 =>
              /\ burst[d].quiet = debounceTime
              /\ trackedDocuments[d] = docText[d]

\* a burst of several events was followed by its one recomputation, which
\* recorded the change of the final text
C1_Witness ==
  \E d \in Docs :
    /\ burst[d].events >= 2
    /\ burst[d].runs = 1
    /\ FsPath(d) \in LogKeys(intervalChangeLog)
    /\ docText[d] = textAC

\* a path matches an ignore rule, built in or configured
MatchesIgnoreRule(path) ==
  \/ Includes(path, strNodeModules)
  \/ EndsWith(path, strEnv)
  \/ Includes(path, strDist)
  \/ EndsWith(path, strLog)
  \/ \E i \in 1..Len(ignoredPaths) : Includes(path, ignoredPaths[i])

C3_StrictAppend ==
  [][\A day \in 1..MaxDay :
       remote'[day] # remote[day] =>
         /\ IsPrefix(remote[day].bytes, remote'[day].bytes)
         /\ Len(remote'[day].bytes) > Len(remote[day].bytes)]_vars

\* a document was written twice, and a concurrent cycle was rejected
C3_Witness ==
  \E day \in 1..MaxDay :
    /\ remote[day].sha = 2
    /\ Len(remoteIds[day]) = 2
    /\ lost # {}

\* C4: a PUT in flight carries the revision its cycle's GET returned, and
\* none exactly when that GET found no document; so a PUT whose GET saw the
\* revision the document still has carries that revision.
C4_PutCarriesFetchedRevision ==
  \A c \in 1..MaxCycles :
    cycles[c].pc = "put" =>
      /\ cycles[c].put.sha = (IF cycles[c].fetched.found THEN cycles[c].fetched.sha ELSE 0)
      /\ (cycles[c].put.sha = 0) <=> ~cycles[c].fetched.found
      /\ cycles[c].fetched.found => cycles[c].fetched.sha >= 1

\* the first write of the day established revision 1 and the next cycle of
\* that day sends its PUT with revision 1
C4_Witness ==
  \E c \in 1..MaxCycles :
    /\ cycles[c].pc = "put"
    /\ remote[cycles[c].date].exists
    /\ remote[cycles[c].date].sha = 1
    /\ cycles[c].fetched.found
    /\ cycles[c].put.sha = 1

\* C5: the scheduler holds at most one active periodic timer in every
\* reachable state, also when setupCommitInterval is called again while an
\* earlier call is suspended in authenticate, getGitHubUsername or
\* createGitHubRepo.
C5_AtMostOneTimer == Cardinality(activeTimers) <= 1

\* C6: a drain of a non-empty changelog removes all keys in one step: a step
\* that renders records or starts a cycle leaves the changelog empty, no
\* step removes only part of the changelog, no record is both rendered and
\* still in the changelog, and the end of a cycle, with or without error,
\* leaves the changelog as the drain left it.
C6_DrainClearsAtomically ==
  [][/\ (rendered' # rendered \/ \E c \in 1..MaxCycles :
                                   cycles[c].pc = "idle" /\ cycles'[c].pc # "idle")
          => /\ intervalChangeLog # <<>>
             /\ intervalChangeLog' = <<>>
             /\ Range(rendered') = Range(rendered) \cup LogIds(intervalChangeLog)
     /\ ~(LogIds(intervalChangeLog) \subseteq LogIds(intervalChangeLog')) => intervalChangeLog' = <<>>
     /\ Range(rendered') \cap LogIds(intervalChangeLog') = {}
     /\ (\E c \in 1..MaxCycles : cycles[c].pc # "idle" /\ cycles'[c].pc = "idle")
          => intervalChangeLog' = intervalChangeLog]_vars

\* a changelog of two keys was drained into one entry and is empty, after
\* an earlier cycle ended with an error
C6_Witness ==
  \E c \in InFlight :
    /\ intervalChangeLog = <<>>
    /\ Includes(cycles[c].content, strH3 \o Basename(pathA))
    /\ Includes(cycles[c].content, strH3 \o Basename(pathB))
    /\ lost # {}

\* C7: records appended while a cycle is suspended on its GET or PUT are
\* not lost: every record ever appended is in the changelog or was rendered
\* by a drain, the records appended since a cycle's drain are not in that
\* cycle's entry, and the next drain renders all of them.
C7_NoLossDuringFlush ==
  [][/\ LogIds(intervalChangeLog') \cup Range(rendered') = 1..(nextId' - 1)
     /\ \A c \in 1..MaxCycles :
          cycles'[c].pc # "idle" =>
            \A id \in cycles'[c].startId..(nextId' - 1) : id \notin Range(cycles'[c].ids)
     /\ rendered' # rendered => Range(rendered') = 1..(nextId - 1)]_vars

\* a record appended while a cycle was suspended is in the entry of the
\* next cycle, and both cycles are in flight
C7_Witness ==
  \E c1 \in InFlight : \E c2 \in InFlight :
    /\ c1 # c2
    /\ \E id \in Range(cycles[c2].ids) : id >= cycles[c1].startId
    /\ cycles[c1].ids # <<>>

\* C8: from an empty changelog a step renders nothing, starts no cycle and
\* leaves the changelog empty unless a handler appends; and every cycle in
\* flight carries a non-empty entry.
C8_EmptyDrainNoRemoteCall ==
  [][/\ intervalChangeLog = <<>> =>
          /\ rendered' = rendered
          /\ \A c \in 1..MaxCycles : cycles[c].pc = "idle" => cycles'[c] = cycles[c]
          /\ intervalChangeLog' # <<>> => nextId' > nextId
     /\ \A c \in 1..MaxCycles :
          cycles'[c].pc # "idle" => cycles'[c].content # <<>> /\ cycles'[c].ids # <<>>]_vars

\* the timer can fire on an empty changelog with every cycle idle, after an
\* earlier drain
C8_Witness ==
  /\ intervalChangeLog = <<>>
  /\ rendered # <<>>
  /\ InFlight = {}
  /\ commitInterval \in activeTimers
  /\ generateActivityContent(intervalChangeLog, today).content = <<>>

\* the number of times an id was rendered
Occurrences(seq, x) == Cardinality({i \in DOMAIN seq : seq[i] = x})

\* C10: the records of a cycle that ended with an error are delivered at
\* most once: they are not in the changelog, not in the entry of a cycle in
\* flight, not in a remote document, and were rendered once.
C10_AtMostOnce ==
  \A id \in lost :
    /\ id \notin LogIds(intervalChangeLog)
    /\ \A c \in InFlight : id \notin Range(cycles[c].ids)
    /\ \A day \in 1..MaxDay : id \notin Range(remoteIds[day])
    /\ Occurrences(rendered, id) = 1

\* a cycle ended with an error and a later cycle was written
C10_Witness ==
  /\ lost # {}
  /\ \E day \in 1..MaxDay :
       /\ remote[day].exists
       /\ \E id \in Range(remoteIds[day]) : \A l \in lost : id > l

\* an entry as updateDiaryEntry writes it: its header and its content
RenderedEntry(timeString, content) == strH2 \o timeString \o strNL \o content

\* C9: appending E1 to a nonexistent document stores E1, with no separator
\* before it, and appending E2 to the result stores E1 + "\n\n" + E2:
\* decoding the stored content reproduces both entries verbatim.
C9_RoundTrip ==
  \A day \in 1..MaxDay :
    LET stored == Decode(StoreContent(remote[day].bytes))
        E1 == RenderedEntry(TimeString(day), entries[1])
        E2 == RenderedEntry(TimeString(day), entries[2])
    IN  /\ (Len(entries) = 2 /\ remote[day].sha = 1) => stored = E1
        /\ (Len(entries) = 2 /\ remote[day].sha = 2) => stored = E1 \o strSep \o E2

\* a cycle ends with an error in this step
CycleFailsNow(c) ==
  /\ cycles[c].pc # "idle"
  /\ cycles'[c].pc = "idle"
  /\ Range(cycles[c].ids) \subseteq lost'

\* C11: a timer-driven cycle that fails aborts only that cycle: every timer
\* stays active (so it fires again), the changelog keeps what handlers
\* appended, and the error is logged or reported.
C11_FailedCycleContained ==
  [][\A c \in 1..MaxCycles :
       CycleFailsNow(c) =>
         /\ activeTimers' = activeTimers
         /\ commitInterval' = commitInterval
         /\ intervalChangeLog' = intervalChangeLog
         /\ Range(cycles[c].ids) \subseteq reported']_vars

\* C12: on shutdown the final flush is performed and completes before the
\* periodic timer is released: a step of the shutdown that clears the timer
\* last set is taken only once deactivate()'s flush has completed.
C12_FinalFlushBeforeRelease ==
  [][(/\ session'.pc # "active"
      /\ commitInterval \in activeTimers
      /\ commitInterval \notin activeTimers')
       => session.pc = "ended"]_vars

\* C13: once the session has ended (deactivate() has returned and the
\* subscriptions are disposed), no periodic timer is active, whatever calls
\* of setupCommitInterval were made or are still suspended.
C13_NoTimerAfterSessionEnd ==
  (session.pc = "ended" /\ disposed) => activeTimers = {}

\* the records a step appends under a path
NewRecords(path) ==
  SubSeq(LogGet(intervalChangeLog', path),
         Len(LogGet(intervalChangeLog, path)) + 1,
         Len(LogGet(intervalChangeLog', path)))

\* C14: the snippet of every record a recomputation appends is the changed
\* line verbatim when the line has at most maxSnippetLength characters
\* (UTF-16 code units, as the length of a string counts them), and its first
\* maxSnippetLength characters followed by the marker "..." when it has more;
\* so no snippet of the changelog is longer than maxSnippetLength plus the
\* length of the marker.
C14_SnippetTruncation ==
  [][/\ \A d \in Docs :
          \A r \in Range(NewRecords(FsPath(d))) :
            LET line == LineAt(SplitLines(docText[d]), r.lines)
            IN  /\ r.type = "code_change"
                /\ Len(line) > maxSnippetLength =>
                     r.snippet = SubSeq(line, 1, maxSnippetLength) \o strEllipsis
                /\ Len(line) <= maxSnippetLength => r.snippet = line
     /\ \A r \in LogRecords(intervalChangeLog') :
          Len(r.snippet) <= maxSnippetLength + Len(strEllipsis)]_vars

\* the changelog holds the record of a line over the limit, truncated and
\* marked, and the record of a line exactly at the limit, verbatim
C14_Witness ==
  /\ \E r \in LogRecords(intervalChangeLog) :
       r.snippet = line300 \o strEllipsis
  /\ \E r \in LogRecords(intervalChangeLog) :
       r.snippet = line300

\* the operations of a sequence of records
Operations(records) == [j \in 1..Len(records) |-> records[j].operation]

\* the operations a rename of one pair is to append under a path
RenameOperations(pair, path) ==
  (IF path = pair.oldUri /\ ~MatchesIgnoreRule(pair.oldUri)
   THEN <<strRenamedTo \o Basename(pair.newUri)>> ELSE <<>>)
  \o (IF path = pair.newUri /\ ~MatchesIgnoreRule(pair.newUri)
      THEN <<strRenamedFrom \o Basename(pair.oldUri)>> ELSE <<>>)

\* C15: a rename of (old, new) appends "renamed to basename(new)" under old
\* exactly when old is not ignored and "renamed from basename(old)" under
\* new exactly when new is not ignored, each decided on its own path, and
\* appends nothing else.
C15_RenameSymmetry ==
  [][\A files \in RenameBatches :
       trackFileRename(files) =>
         /\ \A path \in FilePaths :
              /\ Operations(NewRecords(path)) = RenameOperations(files[1], path)
              /\ \A r \in Range(NewRecords(path)) : r.type = "file_operation"
         /\ LogKeys(intervalChangeLog') \subseteq FilePaths]_vars

\* a.log was renamed to b: the one record of the run is "renamed from
\* a.log" under b, and a.log is no key
C15_Witness ==
  /\ nextId = 2
  /\ LogKeys(intervalChangeLog) = {pathB}
  /\ Operations(LogGet(intervalChangeLog, pathB)) = <<strRenamedFrom \o Basename(pathLog)>>

\* the lines of a text, read off the positions of its line feeds
LineFeeds(text) == {i \in 1..Len(text) : text[i] = 10}
LineCount(text) == Cardinality(LineFeeds(text)) + 1
NthLine(text, k) ==
  IF k > LineCount(text) THEN <<>>
  ELSE LET from == IF k = 1 THEN 0
                   ELSE CHOOSE i \in LineFeeds(text) :
                          Cardinality({j \in LineFeeds(text) : j < i}) = k - 2
           to == IF k = LineCount(text) THEN Len(text) + 1
                 ELSE CHOOSE i \in LineFeeds(text) :
                        Cardinality({j \in LineFeeds(text) : j < i}) = k - 1
       IN  SubSeq(text, from + 1, to - 1)

\* the line numbers at which two texts differ, from line i on, ascending
RECURSIVE DiffLines(_, _, _)
DiffLines(current, previous, i) ==
  IF i > Max(LineCount(current), LineCount(previous)) THEN <<>>
  ELSE (IF NthLine(current, i) # NthLine(previous, i) THEN <<i>> ELSE <<>>)
       \o DiffLines(current, previous, i + 1)

\* C16: a recomputation whose text differs from the snapshot appends under
\* the document's path, after the records already there, exactly one record
\* per line number at which the current line differs from the previous one
\* (lines out of range taken as empty), in increasing order, each with its
\* line number and, the lines being short, the current line as snippet; it
\* changes no other key; a recomputation whose text equals the snapshot
\* appends nothing.
C16_LineDiff ==
  [][\A d \in Docs :
       Recompute(d) =>
         LET path == FsPath(d)
             current == docText[d]
             previous == trackedDocuments[d]
             new == NewRecords(path)
             lines == DiffLines(current, previous, 1)
         IN  /\ IsPrefix(LogGet(intervalChangeLog, path), LogGet(intervalChangeLog', path))
             /\ \A other \in LogKeys(intervalChangeLog') \ {path} :
                  LogGet(intervalChangeLog', other) = LogGet(intervalChangeLog, other)
             /\ current = previous => new = <<>>
             /\ current # previous =>
                  /\ Len(new) = Len(lines)
                  /\ \A j \in 1..Len(new) :
                       /\ new[j].type = "code_change"
                       /\ new[j].lines = lines[j]
                       /\ new[j].snippet = NthLine(current, lines[j])]_vars

\* a text of two lines changed in its second line only: the one record of
\* the run is for line 2 with snippet "c"; and the snapshot is the new text
C16_Witness ==
  /\ nextId = 2
  /\ trackedDocuments = [d \in {"d1"} |-> textAC]
  /\ LogKeys(intervalChangeLog) = {pathA}
  /\ \A r \in LogRecords(intervalChangeLog) : r.lines = 2 /\ r.snippet = <<99>>

\* the trimmed line is empty: the line holds white space only
IsBlank(line) == \A i \in 1..Len(line) : line[i] \in {9, 10, 11, 12, 13, 32, 160}

\* C17: the record of a differing line is of kind line-modified
\* ("code_change", with the truncated snippet) when the trimmed current line
\* is non-empty and of kind line-deleted when it is empty.
C17_LineDeletedKind ==
  [][\A d \in Docs :
       Recompute(d) =>
         \A r \in Range(NewRecords(FsPath(d))) :
           LET line == NthLine(docText[d], r.lines)
           IN  IF IsBlank(line)
               THEN r.type = "line_deleted"
               ELSE r.type = "code_change" /\ r.snippet = Snippet(line)]_vars

\* C18: when a tracked document is closed its tracking ends: its snapshot is
\* discarded, and no step appends records for it afterwards, also when a
\* debounced call was pending at the close.
C18_ClosedIsUntracked ==
  [][\A d \in closed' :
       /\ d \notin DOMAIN trackedDocuments'
       /\ NewRecords(FsPath(d)) = <<>>]_vars

\* C19: a GET that fails with anything other than not-found ends the call
\* without a PUT: the cycle is over, the store is unchanged and the drained
\* records are the caller's loss. A PUT is in flight only after a GET that
\* returned the document or not-found, and it carries the entry alone, with
\* no revision, exactly when the GET returned not-found.
C19_FetchFailureAborts ==
  [][\A c \in 1..MaxCycles :
       /\ (cycles[c].pc = "get" /\ cycles'[c].pc = "idle") =>
            /\ remote' = remote
            /\ Range(cycles[c].ids) \subseteq lost'
       /\ (cycles[c].pc = "get" /\ cycles'[c].pc = "put") =>
            /\ cycles'[c].fetched.status \in {"ok", "notfound"}
            /\ (cycles'[c].fetched.status = "notfound")
                 <=> (cycles'[c].put.content =
                        Encode(RenderedEntry(TimeString(cycles'[c].date), cycles'[c].content)))
            /\ cycles'[c].fetched.status = "notfound" => cycles'[c].put.sha = 0
       /\ cycles[c].pc = "get" => cycles'[c].pc \in {"get", "idle", "put"}
       /\ cycles'[c].pc = "put" => cycles'[c].fetched.status \in {"ok", "notfound"}]_vars

\* after a cycle was aborted and nothing was written, the GET of a later
\* cycle returned not-found and its PUT carries the entry alone
C19_Witness ==
  \E c \in 1..MaxCycles :
    /\ cycles[c].pc = "put"
    /\ cycles[c].fetched.status = "notfound"
    /\ cycles[c].put.sha = 0
    /\ lost # {}
    /\ \A day \in 1..MaxDay : ~remote[day].exists

\* the revision a PUT has to name for the store to take it (0: none)
CurrentSha(day) == IF remote[day].exists THEN remote[day].sha ELSE 0

\* C20: a cycle issues at most one PUT: from its PUT a cycle only ends,
\* without a second GET; when the PUT names a stale revision the cycle ends
\* in error, the document is unchanged and the entry is the caller's loss;
\* and a document changes only by the one PUT of a cycle that named its
\* current revision.
C20_NoRetryOnConflict ==
  [][\A c \in 1..MaxCycles :
       cycles[c].pc = "put" =>
         /\ cycles'[c].pc \in {"put", "idle"}
         /\ (cycles'[c].pc = "idle" /\ cycles[c].put.sha # CurrentSha(cycles[c].date)) =>
              /\ remote' = remote
              /\ remoteIds' = remoteIds
              /\ Range(cycles[c].ids) \subseteq lost'
         /\ (cycles'[c].pc = "idle" /\ remote' # remote) =>
              /\ cycles[c].put.sha = CurrentSha(cycles[c].date)
              /\ remote'[cycles[c].date].sha = remote[cycles[c].date].sha + 1
              /\ \A other \in 1..MaxCycles \ {c} : cycles'[other] = cycles[other]]_vars

\* a PUT is in flight whose revision is stale: another cycle's write landed
\* between this cycle's GET and its PUT
C20_Witness ==
  \E c \in 1..MaxCycles :
    /\ cycles[c].pc = "put"
    /\ remote[cycles[c].date].exists
    /\ cycles[c].put.sha # remote[cycles[c].date].sha
    /\ remoteIds[cycles[c].date] # cycles[c].fetched.ids

(***************************************************************************)
(* C21: createGitHubRepo treats the remote's "already exists" answer (422) *)
(* as success: the calling setupCommitInterval goes on, sets its timer and *)
(* pushes its disposable. Any other failure of createGitHubRepo (another   *)
(* error status, or no response at all) rejects the calling                *)
(* setupCommitInterval: it sets no timer, commitInterval keeps its value   *)
(* and no disposable is pushed.                                            *)
(***************************************************************************)
C21_ExistsIsSuccess ==
  [][\A k \in 1..MaxSetups :
       (setups[k].pc = "repo" /\ setups'[k].pc # "repo") =>
         /\ setups'[k].status \in {201, 422} =>
              /\ setups'[k].pc = "done"
              /\ k \in activeTimers'
              /\ commitInterval' = k
              /\ subscriptions' = subscriptions + 1
         /\ setups'[k].status \notin {201, 422} =>
              /\ setups'[k].pc = "failed"
              /\ activeTimers' = activeTimers
              /\ commitInterval' = commitInterval
              /\ subscriptions' = subscriptions]_vars

\* one call went on after "already exists" and holds the timer, another was
\* rejected
C21_Witness ==
  \E k, j \in 1..MaxSetups :
    /\ setups[k].pc = "done" /\ setups[k].status = 422
    /\ k \in activeTimers /\ commitInterval = k
    /\ setups[j].pc = "failed" /\ setups[j].status \in {500, 0}

(***************************************************************************)
(* C22: the debounced call of a document is its own. An edit event on a    *)
(* document leaves every other document's pending call as it is (neither   *)
(* removed nor restarted) and runs no recomputation (no snapshot and no    *)
(* changelog entry changes); a step of a flush cycle, from the firing of   *)
(* the interval timer to the answer of the PUT, leaves every pending       *)
(* debounced call and every snapshot as it is.                             *)
(***************************************************************************)
C22_DebounceIndependence ==
  [][/\ \A a \in Docs : \A text \in Texts :
          EditDocument(a, text) =>
            /\ \A b \in Docs \ {a} : debounceTimers'[b] = debounceTimers[b]
            /\ trackedDocuments' = trackedDocuments
            /\ intervalChangeLog' = intervalChangeLog
     /\ cycles' # cycles =>
            /\ debounceTimers' = debounceTimers
            /\ trackedDocuments' = trackedDocuments]_vars

\* a document's debounced call has run half its delay; since then the other
\* document was edited and a flush cycle started, and the first call is
\* still due at its own time
C22_Witness ==
  \E a, b \in Docs :
    /\ a # b
    /\ debounceTimers[a] = <<debounceTime>>
    /\ debounceTimers[b] = <<debounceTime - TickMs>>
    /\ \E c \in 1..MaxCycles : cycles[c].pc # "idle"

\* the digits of a decimal numeral, with at most one point
RECURSIVE IsDecimal(_, _, _)
IsDecimal(s, digits, points) ==
  IF s = <<>> THEN digits > 0 /\ points <= 1
  ELSE IF Head(s) \in 48..57 THEN IsDecimal(Tail(s), digits + 1, points)
  ELSE IF Head(s) = 46 THEN IsDecimal(Tail(s), digits, points + 1)
  ELSE FALSE

\* an input that reads as a number: a decimal numeral with an optional sign,
\* or a hexadecimal literal, white space aside
IsNumeric(s) ==
  LET t == SkipWhiteSpace(s)
      u == IF t # <<>> /\ Head(t) \in {43, 45} THEN Tail(t) ELSE t
  IN  \/ IsDecimal(u, 0, 0)
      \/ /\ Len(t) > 2 /\ t[1] = 48 /\ t[2] \in {120, 88}
         /\ \A i \in 3..Len(t) : DigitValue(t[i]) < 16

(***************************************************************************)
(* C23: whatever the input box of the git-diary.changeInterval command     *)
(* resolves to, the handler stores a whole number of minutes that is at    *)
(* least 1 and calls setupCommitInterval with that number times 60000; an  *)
(* input that does not read as a number stores DEFAULT_INTERVAL; and the   *)
(* timer a call of setupCommitInterval sets runs with the delay the call   *)
(* was given.                                                              *)
(***************************************************************************)
C23_IntervalFromInput ==
  [][/\ \A k \in 1..MaxSetups : \A interval \in Inputs :
          ChangeInterval(k, interval) =>
            /\ Len(globalState') = 1
            /\ globalState'[1] \in Nat \ {0}
            /\ setups'[k].intervalMs = Times60000(globalState'[1])
            /\ ~IsNumeric(interval) => globalState'[1] = DEFAULT_INTERVAL
     /\ \A k \in 1..MaxSetups :
          (setups[k].pc = "repo" /\ setups'[k].pc = "done") =>
            setups'[k].delay = setups'[k].intervalMs]_vars

\* the key under which a changelog holds a record
FileOf(log, id) ==
  CHOOSE i \in 1..Len(log) : \E j \in 1..Len(log[i].changes) : log[i].changes[j].id = id

(***************************************************************************)
(* C24: no record is rendered by two drains: it occurs at most once in the *)
(* records drained so far, the entries of two cycles in flight share no    *)
(* record, and a record rendered is no longer in the changelog. The        *)
(* records the changelog holds for a file are in the order they were       *)
(* detected, and a drain renders them in that order: the entry contains    *)
(* the section of each file with its lines in changelog order, and two     *)
(* records of one file are in the entry in the order of their detection.   *)
(***************************************************************************)
C24_RenderedOnceInOrder ==
  [][/\ \A id \in 1..MaxRecords : Occurrences(rendered', id) <= 1
     /\ \A c1, c2 \in 1..MaxCycles :
          (c1 # c2 /\ cycles'[c1].pc # "idle" /\ cycles'[c2].pc # "idle")
            => Range(cycles'[c1].ids) \cap Range(cycles'[c2].ids) = {}
     /\ Range(rendered') \cap LogIds(intervalChangeLog') = {}
     /\ \A i \in 1..Len(intervalChangeLog') :
          \A p, q \in 1..Len(intervalChangeLog'[i].changes) :
            p < q => intervalChangeLog'[i].changes[p].id < intervalChangeLog'[i].changes[q].id
     /\ \A c \in 1..MaxCycles :
          (cycles[c].pc = "idle" /\ cycles'[c].pc # "idle") =>
            /\ \A i \in 1..Len(intervalChangeLog) :
                 Includes(cycles'[c].content, RenderFile(intervalChangeLog[i]))
            /\ Range(cycles'[c].ids) = LogIds(intervalChangeLog)
            /\ \A p, q \in 1..Len(cycles'[c].ids) :
                 (/\ p < q
                  /\ FileOf(intervalChangeLog, cycles'[c].ids[p])
                       = FileOf(intervalChangeLog, cycles'[c].ids[q]))
                   => cycles'[c].ids[p] < cycles'[c].ids[q]]_vars

\* an entry in flight holds two records of one document, detected by two
\* recomputations, and a later drain rendered a third record
C24_Witness ==
  \E c \in InFlight :
    /\ cycles[c].ids = <<1, 2>>
    /\ Includes(cycles[c].content, strH3 \o Basename(pathA))
    /\ ~Includes(cycles[c].content, strH3 \o Basename(pathB))
    /\ 3 \in Range(rendered)

(***************************************************************************)
(* C25: an open event for a document that is already tracked changes       *)
(* nothing: the snapshot keeps its value (it is not set to the current     *)
(* text), no listener is added and no debounced call is added or           *)
(* restarted. No document ever has two listeners or two pending calls, and *)
(* when the event came between an edit and its recomputation, that         *)
(* recomputation is the one run of the burst and records the edit against  *)
(* the snapshot taken before the event.                                    *)
(***************************************************************************)
C25_ReobserveChangesNothing ==
  [][\A d \in Docs :
       /\ (ReobserveDocument(d) /\ d \in DOMAIN trackedDocuments) =>
            /\ trackedDocuments' = trackedDocuments
            /\ listeners' = listeners
            /\ debounceTimers' = debounceTimers
            /\ intervalChangeLog' = intervalChangeLog
       /\ listeners'[d] <= 1
       /\ Len(debounceTimers'[d]) <= 1
       /\ (Recompute(d) /\ observed[d] = "stale") =>
            /\ burst'[d].runs = 1
            /\ NewRecords(FsPath(d)) # <<>>
            /\ NewRecords(FsPath(d))
                 = Changes(docText[d], trackedDocuments[d], today, nextId)]_vars

\* a tracked document was edited and then observed again while its
\* snapshot was stale; the one recomputation that followed recorded the
\* edit
C25_Witness ==
  \E d \in Docs :
    /\ observed[d] = "stale"
    /\ burst[d].runs = 1
    /\ listeners[d] = 1
    /\ trackedDocuments[d] = docText[d]
    /\ FsPath(d) \in LogKeys(intervalChangeLog)

=============================================================================
